---- MODULE Spec2Model ----
(***************************************************************************)
(* Model of CrimeDataAnalyzer (src/sample_analysis.py): the analyzer       *)
(* object's two tables (df, clean_df), its stage methods, and the driver   *)
(* main().                                                                 *)
(*                                                                         *)
(* A table is [exists, cols, index, rows]: the set of column names, the    *)
(* DataFrame index and the rows in order.  A cell is [null, v]: pandas'    *)
(* missing marker (NaN / NaT) or a value.  A text value is a sequence of   *)
(* one-character strings, a date is a number of hours since the first      *)
(* hour of January 1st of a 365-day year.                                  *)
(***************************************************************************)
EXTENDS Integers, Sequences, FiniteSets, TLC

VARIABLES file, df, clean_df, result, ret, pc, stages

vars == <<file, df, clean_df, result, ret, pc, stages>>

(* The largest number of rows of the input file. *)
MaxRows == 2

-----------------------------------------------------------------------------
(* Cells *)

Val(x) == [null |-> FALSE, v |-> x]
NaT == [null |-> TRUE, v |-> 0]
NaN == [null |-> TRUE, v |-> 0]
NaText == [null |-> TRUE, v |-> <<>>]
NaBool == [null |-> TRUE, v |-> FALSE]

(* Series.fillna(value): a missing cell becomes the value. *)
fillna(cell, value) == IF cell.null THEN Val(value) ELSE cell

-----------------------------------------------------------------------------
(* Text: str.strip() and str.upper() *)

LowerCase == <<"a", "b", "c", "d", "e", "f", "g", "h", "i", "j", "k", "l", "m",
               "n", "o", "p", "q", "r", "s", "t", "u", "v", "w", "x", "y", "z">>
UpperCase == <<"A", "B", "C", "D", "E", "F", "G", "H", "I", "J", "K", "L", "M",
               "N", "O", "P", "Q", "R", "S", "T", "U", "V", "W", "X", "Y", "Z">>

IsSpace(c) == c = " "

RECURSIVE lstrip(_)
lstrip(s) == IF s # <<>> /\ IsSpace(Head(s)) THEN lstrip(Tail(s)) ELSE s

RECURSIVE rstrip(_)
rstrip(s) ==
    IF s # <<>> /\ IsSpace(s[Len(s)]) THEN rstrip(SubSeq(s, 1, Len(s) - 1)) ELSE s

strip(s) == rstrip(lstrip(s))

upper_char(c) ==
    IF \E i \in 1..Len(LowerCase) : LowerCase[i] = c
    THEN UpperCase[CHOOSE i \in 1..Len(LowerCase) : LowerCase[i] = c]
    ELSE c

lower_char(c) ==
    IF \E i \in 1..Len(UpperCase) : UpperCase[i] = c
    THEN LowerCase[CHOOSE i \in 1..Len(UpperCase) : UpperCase[i] = c]
    ELSE c

lower(s) == [i \in 1..Len(s) |-> lower_char(s[i])]

upper(s) == [i \in 1..Len(s) |-> upper_char(s[i])]

str_upper_only(cell) == IF cell.null THEN cell ELSE Val(upper(cell.v))

(* df[col].str.strip().str.upper() on one cell: a missing cell stays missing. *)
str_strip_upper(cell) == IF cell.null THEN cell ELSE Val(upper(strip(cell.v)))

UNKNOWN == <<"U", "N", "K", "N", "O", "W", "N">>

-----------------------------------------------------------------------------
(* Columns *)

critical_fields == {"date", "primary_type", "latitude", "longitude"}
OptionalColumns == {"description", "location_description", "arrest", "domestic",
                    "district"}
AllColumns == critical_fields \cup OptionalColumns

(* The columns read_csv gives the dtype object (text). *)
RawTextColumns == {"primary_type", "description", "location_description"}

(* The columns engineer_features adds. *)
TemporalColumns == {"year", "month", "month_name", "day", "day_of_week",
                    "day_name", "hour", "is_weekend"}

-----------------------------------------------------------------------------
(* Tables *)

None == [exists |-> FALSE, cols |-> {}, index |-> <<>>, rows |-> <<>>]

Table(cols, index, rows) ==
    [exists |-> TRUE, cols |-> cols, index |-> index, rows |-> rows]

len(t) == Len(t.rows)

(* The positions 1..n that are in keep, in order. *)
RECURSIVE KeptPositions(_, _, _)
KeptPositions(n, i, keep) ==
    IF i > n THEN <<>>
    ELSE (IF i \in keep THEN <<i>> ELSE <<>>) \o KeptPositions(n, i + 1, keep)

(* Boolean-mask selection: the rows at the kept positions, index and order kept. *)
Select(t, keep) ==
    LET pos == KeptPositions(len(t), 1, keep)
    IN  Table(t.cols,
              [k \in 1..Len(pos) |-> t.index[pos[k]]],
              [k \in 1..Len(pos) |-> t.rows[pos[k]]])

(* DataFrame.duplicated(): a row equal in all columns to an earlier row. *)
duplicated(t, i) == \E j \in 1..(i - 1) : t.rows[j] = t.rows[i]

(* DataFrame.drop_duplicates(): keep the first of each group of equal rows. *)
keep_all(t) == t
drop_duplicates(t) == Select(t, {i \in 1..len(t) : ~duplicated(t, i)})

(* DataFrame.dropna(subset=...): drop the rows missing any of the fields. *)
dropna(t, subset) ==
    Select(t, {i \in 1..len(t) : \A c \in subset : ~t.rows[i][c].null})

(* The table with cells[i][c] in row i, column c; columns and index kept. *)
WithCells(t, cells) ==
    Table(t.cols, t.index, [i \in 1..len(t) |-> [c \in t.cols |-> cells[i][c]]])

(* df[col] = df[col].fillna(value) for the columns of cs the table has. *)
fill_columns(t, cs, value) ==
    WithCells(t, [i \in 1..len(t) |-> [c \in t.cols |->
        IF c \in cs THEN fillna(t.rows[i][c], value) ELSE t.rows[i][c]]])

(* .fillna(False).astype(bool) on one cell. *)
to_bool(cell) == Val(fillna(cell, FALSE).v)

(* df[col] = df[col].fillna(False).astype(bool) for the columns of cs it has. *)
bool_columns(t, cs) ==
    WithCells(t, [i \in 1..len(t) |-> [c \in t.cols |->
        IF c \in cs THEN to_bool(t.rows[i][c]) ELSE t.rows[i][c]]])

(* select_dtypes(include=['object']) after the fills and casts. *)
text_columns(t) == t.cols \cap RawTextColumns

(* df[col] = df[col].str.strip().str.upper() for the columns of cs. *)
standardize_columns(t, cs) ==
    WithCells(t, [i \in 1..len(t) |-> [c \in t.cols |->
        IF c \in cs THEN str_strip_upper(t.rows[i][c]) ELSE t.rows[i][c]]])

(* The table clean_data computes from the loaded one. *)
CleanTable(t) ==
    LET d1 == drop_duplicates(t)
        d2 == dropna(d1, critical_fields)
        d3 == fill_columns(d2, {"description", "location_description"}, UNKNOWN)
        d4 == bool_columns(d3, {"arrest", "domestic"})
        d5 == standardize_columns(d4, text_columns(d4) \ {"date"})
    IN  d5

-----------------------------------------------------------------------------
(* Dates: the .dt accessors *)

DaysBeforeMonth == <<0, 31, 59, 90, 120, 151, 181, 212, 243, 273, 304, 334>>
MonthNames == <<"January", "February", "March", "April", "May", "June", "July",
                "August", "September", "October", "November", "December">>
DayNames == <<"Monday", "Tuesday", "Wednesday", "Thursday", "Friday", "Saturday",
              "Sunday">>

day_of_year(d) == d \div 24
dt_year(d) == 2023
dt_month(d) ==
    CHOOSE m \in 1..12 :
        /\ DaysBeforeMonth[m] <= day_of_year(d)
        /\ (m = 12 \/ day_of_year(d) < DaysBeforeMonth[m + 1])
dt_day(d) == day_of_year(d) - DaysBeforeMonth[dt_month(d)] + 1
dt_hour(d) == d % 24
(* 0 = Monday .. 6 = Sunday; January 1st of the modelled year is a Sunday. *)
dt_dayofweek(d) == (6 + day_of_year(d)) % 7

(* A date built from its parts. *)
Date(month, day, hour) == (DaysBeforeMonth[month] + day - 1) * 24 + hour

(* Timedelta.days of the difference of two dates. *)
timedelta_days(later, earlier) == (later - earlier) \div 24

-----------------------------------------------------------------------------
(* engineer_features *)

categorize_time_off_by_one(hour) ==
    IF 6 < hour /\ hour < 12 THEN "Morning"
    ELSE IF 12 <= hour /\ hour < 18 THEN "Afternoon"
    ELSE IF 18 <= hour /\ hour < 24 THEN "Evening"
    ELSE "Night"

categorize_time(hour) ==
    IF 6 <= hour /\ hour < 12 THEN "Morning"
    ELSE IF 12 <= hour /\ hour < 18 THEN "Afternoon"
    ELSE IF 18 <= hour /\ hour < 24 THEN "Evening"
    ELSE "Night"

get_season(month) ==
    IF month \in {12, 1, 2} THEN "Winter"
    ELSE IF month \in {3, 4, 5} THEN "Spring"
    ELSE IF month \in {6, 7, 8} THEN "Summer"
    ELSE "Fall"

HOMICIDE == <<"H", "O", "M", "I", "C", "I", "D", "E">>
ASSAULT == <<"A", "S", "S", "A", "U", "L", "T">>
BATTERY == <<"B", "A", "T", "T", "E", "R", "Y">>
ROBBERY == <<"R", "O", "B", "B", "E", "R", "Y">>
CRIMINAL_SEXUAL_ASSAULT ==
    <<"C", "R", "I", "M", "I", "N", "A", "L", " ", "S", "E", "X", "U", "A", "L",
      " ", "A", "S", "S", "A", "U", "L", "T">>
KIDNAPPING == <<"K", "I", "D", "N", "A", "P", "P", "I", "N", "G">>
violent_crimes ==
    {HOMICIDE, ASSAULT, BATTERY, ROBBERY, CRIMINAL_SEXUAL_ASSAULT, KIDNAPPING}

(* Series.apply(f) on one cell of a numeric column: f sees NaN for a missing cell, *)
(* and every comparison with NaN is false, so f takes its last branch.            *)
apply_time(cell) == Val(IF cell.null THEN "Night" ELSE categorize_time(cell.v))
apply_season(cell) == Val(IF cell.null THEN "Fall" ELSE get_season(cell.v))

(* The derived cells of one row; an accessor of .dt gives a missing value for NaT. *)
DerivedCell(row, cols, c) ==
    LET date == row["date"]
        d == date.v
        dow == IF date.null THEN NaN ELSE Val(dt_dayofweek(d))
        hour == IF date.null THEN NaN ELSE Val(dt_hour(d))
        month == IF date.null THEN NaN ELSE Val(dt_month(d))
    IN  CASE c = "year" -> IF date.null THEN NaN ELSE Val(dt_year(d))
          [] c = "month" -> month
          [] c = "month_name" -> IF date.null THEN NaN ELSE Val(MonthNames[dt_month(d)])
          [] c = "day" -> IF date.null THEN NaN ELSE Val(dt_day(d))
          [] c = "day_of_week" -> dow
          [] c = "day_name" -> IF date.null THEN NaN ELSE Val(DayNames[dt_dayofweek(d) + 1])
          [] c = "hour" -> hour
          [] c = "is_weekend" -> Val(~dow.null /\ dow.v \in {5, 6})
          [] c = "time_of_day" -> apply_time(hour)
          [] c = "season" -> apply_season(month)
          [] c = "is_violent" ->
                Val(~row["primary_type"].null /\ row["primary_type"].v \in violent_crimes)

(* The columns engineer_features writes on a table with the columns cols. *)
EngineeredColumns(cols) ==
    TemporalColumns \cup {"time_of_day", "season"}
        \cup (IF "primary_type" \in cols THEN {"is_violent"} ELSE {})

EngineerTable_deduplicated(t) ==
    LET new == EngineeredColumns(t.cols)
        kept == drop_duplicates(t)
    IN  Table(kept.cols \cup new, kept.index,
              [i \in 1..len(kept) |->
                  [c \in kept.cols \cup new |->
                      IF c \in new THEN DerivedCell(kept.rows[i], kept.cols, c)
                      ELSE kept.rows[i][c]]])

(* The table engineer_features computes from the cleaned one: the rows and the *)
(* index are kept, the derived columns are added (or written again).           *)
EngineerTable(t) ==
    LET new == EngineeredColumns(t.cols)
    IN  Table(t.cols \cup new, t.index,
              [i \in 1..len(t) |->
                  [c \in t.cols \cup new |->
                      IF c \in new THEN DerivedCell(t.rows[i], t.cols, c)
                      ELSE t.rows[i][c]]])

-----------------------------------------------------------------------------
(* The outcome of a call: the two tables after it, how it ended, what it   *)
(* returned.  "InvalidState" is the ValueError a stage raises from its own *)
(* prerequisite check; the other failures carry the exception's name.      *)

NoRet == [none |-> TRUE]

Outcome(d, c, status, r) == [df |-> d, clean_df |-> c, status |-> status, ret |-> r]

Raise(d, c, status) == Outcome(d, c, status, NoRet)

(* Aggregations *)

Positions(t) == 1..len(t)
Count(t, c, x) == Cardinality({i \in Positions(t) : t.rows[i][c] = Val(x)})
Values(t, c) == {t.rows[i][c].v : i \in {j \in Positions(t) : ~t.rows[j][c].null}}
Min(S) == CHOOSE x \in S : \A y \in S : x <= y
Max(S) == CHOOSE x \in S : \A y \in S : y <= x
min_of(t, c) == IF Values(t, c) = {} THEN NaT ELSE Val(Min(Values(t, c)))
max_of(t, c) == IF Values(t, c) = {} THEN NaT ELSE Val(Max(Values(t, c)))
(* Series.value_counts() / groupby(c).size(): missing keys are left out. *)
value_counts(t, c) == [x \in Values(t, c) |-> Count(t, c, x)]
(* A float quotient, kept exact; numpy gives NaN for 0 / 0. *)
Quotient(num, den) == IF den = 0 THEN NaN ELSE Val([num |-> num, den |-> den])
(* Series.sum() of a boolean column. *)
sum_true(t, c) == Count(t, c, TRUE)

-----------------------------------------------------------------------------
(* The input file at the path given to load_data *)

MissingFile == [kind |-> "missing", table |-> None]
MalformedFile == [kind |-> "malformed", table |-> None]
CsvFile(t) == [kind |-> "csv", table |-> t]

NoPath == "None"
DataPath == "data/raw/crimes.csv"

(* pd.read_csv: a fresh table with the index 0 .. n-1. *)
load_data_run(d, c, path, f) ==
    IF path = NoPath THEN Raise(d, c, "ValueError")
    ELSE IF f.kind = "missing" THEN Raise(d, c, "NotFound")
    ELSE IF f.kind = "malformed" THEN Raise(d, c, "LoadError")
    ELSE Outcome(f.table, c, "ok", f.table)

explore_data_run(d, c) ==
    IF ~d.exists THEN Raise(d, c, "InvalidState")
    ELSE Outcome(d, c, "ok",
            [total_records |-> len(d),
             columns |-> Cardinality(d.cols),
             date_range |-> <<min_of(d, "date"), max_of(d, "date")>>,
             missing_values |->
                 Cardinality({<<i, col>> \in Positions(d) \X d.cols : d.rows[i][col].null}),
             duplicate_records |->
                 Cardinality({i \in Positions(d) : duplicated(d, i)})])

clean_data_in_place(d, c) ==
    IF ~d.exists THEN Raise(d, c, "InvalidState")
    ELSE LET cleaned == CleanTable(d) IN Outcome(cleaned, cleaned, "ok", cleaned)

clean_data_run(d, c) ==
    IF ~d.exists THEN Raise(d, c, "InvalidState")
    ELSE LET cleaned == CleanTable(d) IN Outcome(d, cleaned, "ok", cleaned)

engineer_features_unguarded(d, c) ==
    LET enriched == EngineerTable(c) IN Outcome(d, enriched, "ok", enriched)

engineer_features_run(d, c) ==
    IF ~c.exists THEN Raise(d, c, "InvalidState")
    ELSE LET enriched == EngineerTable(c) IN Outcome(d, enriched, "ok", enriched)

analyze_trends_run(d, c) ==
    IF ~c.exists THEN Raise(d, c, "InvalidState")
    ELSE IF "year" \notin c.cols THEN Raise(d, c, "KeyError")
    ELSE IF len(c) = 0 THEN Raise(d, c, "ValueError")
    ELSE LET yearly_crimes == value_counts(c, "year")
             years == DOMAIN yearly_crimes
             prev(y) == Max({x \in years : x < y})
             months == Values(c, "month")
             years_of(m) == {c.rows[i]["year"].v :
                                i \in {j \in Positions(c) : c.rows[j]["month"] = Val(m)}}
             hourly_crimes == value_counts(c, "hour")
             most == Max({hourly_crimes[h] : h \in DOMAIN hourly_crimes})
         IN  Outcome(d, c, "ok",
                [yearly_crimes |-> yearly_crimes,
                 yoy_change |->
                     [y \in years |->
                         IF y = Min(years) THEN NaN
                         ELSE Quotient((yearly_crimes[y] - yearly_crimes[prev(y)]) * 100,
                                       yearly_crimes[prev(y)])],
                 monthly_avg |->
                     [m \in months |->
                         Quotient(Count(c, "month", m), Cardinality(years_of(m)))],
                 peak_hour |->
                     Min({h \in DOMAIN hourly_crimes : hourly_crimes[h] = most})])

analyze_crime_types_run(d, c) ==
    IF ~c.exists THEN Raise(d, c, "InvalidState")
    ELSE Outcome(d, c, "ok",
            [x \in Values(c, "primary_type") |->
                [Count |-> Count(c, "primary_type", x),
                 Percentage |-> Quotient(Count(c, "primary_type", x) * 100, len(c))]])

analyze_geographic_run(d, c) ==
    IF ~c.exists THEN Raise(d, c, "InvalidState")
    ELSE Outcome(d, c, "ok",
            [district_crimes |->
                 IF "district" \in c.cols
                 THEN [none |-> FALSE, counts |-> value_counts(c, "district")]
                 ELSE [none |-> TRUE, counts |-> <<>>],
             location_types |->
                 IF "location_description" \in c.cols
                 THEN [none |-> FALSE, counts |-> value_counts(c, "location_description")]
                 ELSE [none |-> TRUE, counts |-> <<>>]])

(* The keys calculate_kpis sets on a table with the columns cols. *)
KpiKeys(cols) ==
    {"total_crimes", "avg_crimes_per_day"}
        \cup (IF "arrest" \in cols THEN {"arrest_rate"} ELSE {})
        \cup (IF "domestic" \in cols THEN {"domestic_pct"} ELSE {})
        \cup (IF "is_violent" \in cols THEN {"violent_pct"} ELSE {})

(* (df['date'].max() - df['date'].min()).days: NaN for an empty table. *)
date_range_days(c) ==
    IF len(c) = 0 THEN NaN
    ELSE Val(timedelta_days(max_of(c, "date").v, min_of(c, "date").v))

calculate_kpis_run(d, c) ==
    IF ~c.exists THEN Raise(d, c, "InvalidState")
    ELSE LET n == len(c)
             days == date_range_days(c)
         IN  IF ~days.null /\ days.v = 0 THEN Raise(d, c, "ZeroDivisionError")
             ELSE Outcome(d, c, "ok",
                    [k \in KpiKeys(c.cols) |->
                        CASE k = "total_crimes" -> Val(n)
                          [] k = "arrest_rate" -> Quotient(sum_true(c, "arrest") * 100, n)
                          [] k = "domestic_pct" -> Quotient(sum_true(c, "domestic") * 100, n)
                          [] k = "violent_pct" -> Quotient(sum_true(c, "is_violent") * 100, n)
                          [] k = "avg_crimes_per_day" ->
                                IF days.null THEN NaN ELSE Quotient(n, days.v)])

export_clean_data_run(d, c, writable) ==
    IF ~c.exists THEN Raise(d, c, "InvalidState")
    ELSE IF ~writable THEN Raise(d, c, "ExportError")
    ELSE Outcome(d, c, "ok", NoRet)

generate_summary_report_run(d, c) ==
    IF ~c.exists THEN Raise(d, c, "InvalidState")
    ELSE LET kpis == calculate_kpis_run(d, c)
         IN  IF kpis.status # "ok" THEN Raise(d, c, kpis.status)
             ELSE Outcome(d, c, "ok",
                    [total_records |-> len(c),
                     date_range |-> <<min_of(c, "date"), max_of(c, "date")>>,
                     unique_crime_types |-> Cardinality(Values(c, "primary_type")),
                     kpis |-> [k \in DOMAIN kpis.ret \ {"total_crimes", "avg_crimes_per_day"}
                                  |-> kpis.ret[k]],
                     top_crimes |-> value_counts(c, "primary_type")])

-----------------------------------------------------------------------------
(* The input files the model draws from *)

THEFT == <<"T", "H", "E", "F", "T">>
theft_lower == <<"t", "h", "e", "f", "t">>
STREET == <<"S", "T", "R", "E", "E", "T">>
street_padded == <<" ", "s", "t", "r", "e", "e", "t", " ">>
OVER_500 == <<"O", "V", "E", "R", " ", "$", "5", "0", "0">>

BaseRow ==
    [date |-> Val(Date(1, 1, 6)), primary_type |-> Val(THEFT),
     latitude |-> Val(41), longitude |-> Val(87),
     description |-> Val(OVER_500), location_description |-> Val(STREET),
     arrest |-> Val(FALSE), domestic |-> Val(FALSE), district |-> Val(1)]

(* The values a row may hold in each column instead of BaseRow's. *)
Alternatives ==
    [date |-> {NaT, Val(Date(1, 1, 18)), Val(Date(3, 4, 5))},
     primary_type |-> {NaText, Val(theft_lower), Val(BATTERY)},
     latitude |-> {NaN},
     longitude |-> {NaN},
     description |-> {NaText, Val(UNKNOWN)},
     location_description |-> {NaText, Val(street_padded)},
     arrest |-> {NaBool, Val(TRUE)},
     domestic |-> {NaBool},
     district |-> {}]

(* BaseRow and the rows that differ from it in one column. *)
FullRows ==
    {BaseRow} \cup
    {[BaseRow EXCEPT ![c] = x] : <<c, x>> \in
        UNION {{<<col, alt>> : alt \in Alternatives[col]} : col \in AllColumns}}

Schemas == {AllColumns, critical_fields}

RowsOf(cols) == {[c \in cols |-> r[c]] : r \in FullRows}

(* The index read_csv gives a table of n rows. *)
RangeIndex(n) == [i \in 1..n |-> i - 1]

RawTables ==
    {Table(cols, RangeIndex(Len(rows)), rows) :
        <<cols, rows>> \in
            UNION {{<<cs, rs>> : rs \in UNION {[1..n -> RowsOf(cs)] : n \in 0..MaxRows}} :
                      cs \in Schemas}}

(* One-row tables over every hour of the first day of every month. *)
YearTables ==
    {Table(AllColumns, RangeIndex(1), <<[BaseRow EXCEPT !["date"] = Val(Date(m, 1, h))]>>) :
        <<m, h>> \in (1..12) \X (0..23)}

InputFiles ==
    {MissingFile, MalformedFile} \cup {CsvFile(t) : t \in RawTables \cup YearTables}

-----------------------------------------------------------------------------
(* The analyzer's methods, called in any order *)

Init ==
    /\ file \in InputFiles
    /\ df = None
    /\ clean_df = None
    /\ result = [op |-> "__init__", status |-> "ok"]
    /\ ret = NoRet
    /\ pc = "api"
    /\ stages = <<>>

Call(op, out) ==
    /\ df' = out.df
    /\ clean_df' = out.clean_df
    /\ result' = [op |-> op, status |-> out.status]
    /\ ret' = out.ret
    /\ UNCHANGED <<file, pc, stages>>

load_data ==
    \E path \in {NoPath, DataPath} :
        Call("load_data", load_data_run(df, clean_df, path, file))

explore_data == Call("explore_data", explore_data_run(df, clean_df))

clean_data == Call("clean_data", clean_data_run(df, clean_df))

engineer_features == Call("engineer_features", engineer_features_run(df, clean_df))

analyze_trends == Call("analyze_trends", analyze_trends_run(df, clean_df))

analyze_crime_types == Call("analyze_crime_types", analyze_crime_types_run(df, clean_df))

analyze_geographic == Call("analyze_geographic", analyze_geographic_run(df, clean_df))

calculate_kpis == Call("calculate_kpis", calculate_kpis_run(df, clean_df))

generate_summary_report ==
    Call("generate_summary_report", generate_summary_report_run(df, clean_df))

export_clean_data ==
    \E writable \in BOOLEAN :
        Call("export_clean_data", export_clean_data_run(df, clean_df, writable))

Next ==
    \/ load_data
    \/ explore_data
    \/ clean_data
    \/ engineer_features
    \/ analyze_trends
    \/ analyze_crime_types
    \/ analyze_geographic
    \/ calculate_kpis
    \/ generate_summary_report
    \/ export_clean_data

Spec == Init /\ [][Next]_vars

-----------------------------------------------------------------------------
(* The driver main() *)

StageOrder == <<"load", "explore", "clean", "engineer", "trends", "types",
                "geographic", "kpis", "report", "export">>

StageIndex(stage) == CHOOSE i \in 1..Len(StageOrder) : StageOrder[i] = stage

main_next_swallow(stage, status) ==
    IF stage = "export" THEN "complete" ELSE StageOrder[StageIndex(stage) + 1]

(* Where main goes after a stage: the next stage; out of main when load_data *)
(* fails (it returns) or another stage raises (nothing catches it); on to    *)
(* the closing message after export_clean_data, failed or not.               *)
main_next(stage, status) ==
    IF stage = "export" THEN "complete"
    ELSE IF status = "ok" THEN StageOrder[StageIndex(stage) + 1]
    ELSE IF stage = "load" THEN "returned"
    ELSE "raised"

InitMain ==
    /\ file \in InputFiles
    /\ df = None
    /\ clean_df = None
    /\ result = [op |-> "__init__", status |-> "ok"]
    /\ ret = NoRet
    /\ pc = "load"
    /\ stages = <<>>

Stage(stage, op, out) ==
    /\ pc = stage
    /\ df' = out.df
    /\ clean_df' = out.clean_df
    /\ result' = [op |-> op, status |-> out.status]
    /\ ret' = out.ret
    /\ stages' = Append(stages, [stage |-> stage, status |-> out.status])
    /\ pc' = main_next(stage, out.status)
    /\ UNCHANGED file

main_load == Stage("load", "load_data", load_data_run(df, clean_df, DataPath, file))
main_explore == Stage("explore", "explore_data", explore_data_run(df, clean_df))
main_clean == Stage("clean", "clean_data", clean_data_run(df, clean_df))
main_engineer == Stage("engineer", "engineer_features", engineer_features_run(df, clean_df))
main_trends == Stage("trends", "analyze_trends", analyze_trends_run(df, clean_df))
main_types == Stage("types", "analyze_crime_types", analyze_crime_types_run(df, clean_df))
main_geographic ==
    Stage("geographic", "analyze_geographic", analyze_geographic_run(df, clean_df))
main_kpis == Stage("kpis", "calculate_kpis", calculate_kpis_run(df, clean_df))
main_report ==
    Stage("report", "generate_summary_report", generate_summary_report_run(df, clean_df))
main_export ==
    \E writable \in BOOLEAN :
        Stage("export", "export_clean_data", export_clean_data_run(df, clean_df, writable))

main_complete ==
    /\ pc = "complete"
    /\ pc' = "done"
    /\ UNCHANGED <<file, df, clean_df, result, ret, stages>>

NextMain ==
    \/ main_load
    \/ main_explore
    \/ main_clean
    \/ main_engineer
    \/ main_trends
    \/ main_types
    \/ main_geographic
    \/ main_kpis
    \/ main_report
    \/ main_export
    \/ main_complete

SpecMain == InitMain /\ [][NextMain]_vars

-----------------------------------------------------------------------------
(* Properties *)

Ok(op) == result.op = op /\ result.status = "ok"

(* The loaded row a row of clean_df comes from, found by its index label. *)
RawRowOf(k) == df.rows[clean_df.index[k] + 1]

Restrict(row, cols) == [c \in cols |-> row[c]]

LowerLetters == {LowerCase[i] : i \in 1..Len(LowerCase)}

(* A text with no surrounding whitespace and no lower-case letter. *)
TrimmedUpper(s) ==
    /\ s = <<>> \/ (s[1] # " " /\ s[Len(s)] # " ")
    /\ \A i \in 1..Len(s) : s[i] \notin LowerLetters

NeedsLoaded == {"explore_data", "clean_data"}
NeedsCleaned == {"engineer_features", "analyze_trends", "analyze_crime_types",
                 "analyze_geographic", "calculate_kpis"}
ReadOnlyStages == {"explore_data", "analyze_trends", "analyze_crime_types",
                   "analyze_geographic", "calculate_kpis"}

(* C1: a stage called before its prerequisite fails with InvalidState and      *)
(* changes neither table: explore_data and clean_data with no table loaded,    *)
(* engineer_features and the four analyzers with no cleaned table.             *)
C1_PrerequisiteGuard ==
    [][/\ (~df.exists /\ result'.op \in NeedsLoaded)
            => (result'.status = "InvalidState" /\ df' = df /\ clean_df' = clean_df)
       /\ (~clean_df.exists /\ result'.op \in NeedsCleaned)
            => (result'.status = "InvalidState" /\ df' = df /\ clean_df' = clean_df)]_vars

C1_Witness ==
    /\ result = [op |-> "engineer_features", status |-> "InvalidState"]
    /\ df.exists /\ len(df) > 0
    /\ ~clean_df.exists

(* C2: the table clean_data produces has at most as many rows as the loaded    *)
(* one, and engineer_features returns the rows of the cleaned table it started *)
(* from, all of them, in the same order, with columns added only.              *)
C2_RowCounts ==
    [][/\ (result'.op = "clean_data" /\ result'.status = "ok")
            => len(clean_df') <= len(df)
       /\ (result'.op = "engineer_features" /\ result'.status = "ok")
            => /\ len(clean_df') = len(clean_df)
               /\ clean_df'.index = clean_df.index
               /\ clean_df.cols \subseteq clean_df'.cols
               /\ \A k \in 1..len(clean_df) :
                     Restrict(clean_df'.rows[k], clean_df.cols) = clean_df.rows[k]]_vars

C2_Witness ==
    /\ Ok("engineer_features")
    /\ len(df) = 2 /\ len(clean_df) = 2
    /\ clean_df.rows[1] = clean_df.rows[2]
    /\ "season" \in clean_df.cols

(* C3: every row clean_data produces is a Cleaned Record: the critical fields  *)
(* are present; description and location_description are present, "UNKNOWN"    *)
(* where the loaded row missed them; arrest and domestic are booleans, false   *)
(* where the loaded row missed them; every text field is trimmed and in upper  *)
(* case.                                                                       *)
C3_CleanedRecords ==
    Ok("clean_data") =>
        \A k \in 1..len(clean_df) :
            LET row == clean_df.rows[k]
                raw == RawRowOf(k)
            IN  /\ \A c \in critical_fields : ~row[c].null
                /\ \A c \in clean_df.cols \cap {"description", "location_description"} :
                      /\ ~row[c].null
                      /\ raw[c].null => row[c].v = UNKNOWN
                /\ \A c \in clean_df.cols \cap {"arrest", "domestic"} :
                      /\ ~row[c].null
                      /\ row[c].v \in BOOLEAN
                      /\ raw[c].null => row[c].v = FALSE
                /\ \A c \in clean_df.cols \cap RawTextColumns :
                      ~row[c].null => TrimmedUpper(row[c].v)

C3_Witness ==
    /\ Ok("clean_data")
    /\ len(clean_df) = 2
    /\ {"location_description", "arrest"} \subseteq clean_df.cols
    /\ RawRowOf(1)["location_description"] = Val(street_padded)
    /\ RawRowOf(2)["arrest"].null

(* C4: with a zero-day span (max(date) = min(date)) calculate_kpis does not    *)
(* abort and still returns total_crimes.                                       *)
C4_ZeroSpanKpis ==
    (/\ result.op = "calculate_kpis"
     /\ clean_df.exists /\ len(clean_df) > 0
     /\ max_of(clean_df, "date") = min_of(clean_df, "date"))
        => (result.status = "ok" /\ "total_crimes" \in DOMAIN ret)

(* The buckets of section 4.4. *)
BucketOfHour(h) ==
    CASE h \in 6..11 -> "Morning"
      [] h \in 12..17 -> "Afternoon"
      [] h \in 18..23 -> "Evening"
      [] h \in 0..5 -> "Night"
SeasonOfMonth(m) ==
    CASE m \in {12, 1, 2} -> "Winter"
      [] m \in {3, 4, 5} -> "Spring"
      [] m \in {6, 7, 8} -> "Summer"
      [] m \in {9, 10, 11} -> "Fall"

(* C5: in the enriched table every row has an hour in 0..23 and a month in     *)
(* 1..12, and its time_of_day and season are the bucket of that hour and the   *)
(* season of that month, never missing.                                        *)
C5_Buckets ==
    (clean_df.exists /\ "time_of_day" \in clean_df.cols) =>
        \A k \in 1..len(clean_df) :
            LET row == clean_df.rows[k]
            IN  /\ ~row["hour"].null /\ row["hour"].v \in 0..23
                /\ ~row["month"].null /\ row["month"].v \in 1..12
                /\ row["time_of_day"] = Val(BucketOfHour(row["hour"].v))
                /\ row["season"] = Val(SeasonOfMonth(row["month"].v))

C5_Witness ==
    /\ Ok("engineer_features")
    /\ len(clean_df) = 1
    /\ clean_df.rows[1]["hour"] = Val(6)
    /\ clean_df.rows[1]["time_of_day"] = Val("Morning")
    /\ clean_df.rows[1]["month"] = Val(12)
    /\ clean_df.rows[1]["season"] = Val("Winter")

(* A table of Cleaned Records with no two equal rows. *)
AlreadyCleaned(t) ==
    /\ t.exists
    /\ \A i, j \in 1..len(t) : i # j => t.rows[i] # t.rows[j]
    /\ \A i \in 1..len(t) :
          /\ \A c \in critical_fields : ~t.rows[i][c].null
          /\ \A c \in t.cols \cap {"description", "location_description"} : ~t.rows[i][c].null
          /\ \A c \in t.cols \cap {"arrest", "domestic"} : ~t.rows[i][c].null
          /\ \A c \in t.cols \cap RawTextColumns : TrimmedUpper(t.rows[i][c].v)

(* C6: clean_data on a table that is already cleaned gives that table back,    *)
(* row for row and value for value.                                            *)
C6_Idempotent ==
    (Ok("clean_data") /\ AlreadyCleaned(df)) => clean_df = df

C6_Witness ==
    /\ Ok("clean_data")
    /\ AlreadyCleaned(df)
    /\ len(df) = 2
    /\ "description" \in df.cols

(* C7: analyze_trends fails with InvalidState whenever the current table has   *)
(* no derived columns.                                                         *)
C7_TrendsNeedEnriched ==
    (result.op = "analyze_trends" /\ "year" \notin clean_df.cols)
        => result.status = "InvalidState"

(* C8: once loaded, df changes in no call but load_data, and explore_data and  *)
(* the analyzers change neither df nor clean_df.                               *)
C8_RawImmutable ==
    [][/\ (df.exists /\ result'.op # "load_data") => df' = df
       /\ result'.op \in ReadOnlyStages => (df' = df /\ clean_df' = clean_df)]_vars

C8_Witness ==
    /\ Ok("engineer_features")
    /\ df = file.table
    /\ len(df) = 2 /\ len(clean_df) = 1
    /\ clean_df.rows[1]["primary_type"] # df.rows[clean_df.index[1] + 1]["primary_type"]

(* C9: in main a failed stage is the last stage executed: no later stage runs, *)
(* no report is emitted after it, and main is over (it returned after a failed *)
(* load, the exception left it, or, after a failed export, only the closing    *)
(* message is left).                                                           *)
C9_HaltOnFailure ==
    \A i \in 1..Len(stages) :
        /\ stages[i].stage = StageOrder[i]
        /\ stages[i].status # "ok" =>
              /\ i = Len(stages)
              /\ pc = (IF stages[i].stage = "load" THEN "returned" ELSE "raised")
                 \/ (stages[i].stage = "export" /\ pc \in {"complete", "done"})

C9_Witness ==
    /\ pc = "raised"
    /\ stages[Len(stages)] = [stage |-> "kpis", status |-> "ZeroDivisionError"]

(* C10 as stated: the table clean_data produces has no two rows equal in all   *)
(* columns.                                                                    *)
C10_NoEqualCleanedRows ==
    Ok("clean_data") =>
        \A i, j \in 1..len(clean_df) : i # j => clean_df.rows[i] # clean_df.rows[j]

(* C10 amended: the rows clean_data keeps come from different loaded rows, no  *)
(* two of which are equal in all columns (the comparison is on the loaded      *)
(* values, before the fills and the normalisation).                            *)
C10_NoEqualRawSurvivors ==
    Ok("clean_data") =>
        \A i, j \in 1..len(clean_df) :
            i < j => /\ clean_df.index[i] < clean_df.index[j]
                     /\ RawRowOf(i) # RawRowOf(j)

C10_Witness ==
    /\ Ok("clean_data")
    /\ len(df) = 2 /\ df.rows[1] = df.rows[2]
    /\ len(clean_df) = 1

====
